---- MODULE Spec2Model ----
(***************************************************************************)
(* GeneModelFinder.py: the mash-output parsers, the model/sketch           *)
(* consistency check, the best-hit selection and the select_models         *)
(* pipeline.  Text is a sequence of one-character strings; every field the *)
(* code keeps as a Python str is kept here as such a sequence.             *)
(***************************************************************************)
EXTENDS Integers, Sequences, FiniteSets, TLC

VARIABLES
    pc,         \* position of the run: the function about to be executed
    check,      \* select_models argument: --check
    mode,       \* select_models argument: --mode
    n,          \* select_models argument: -n
    models,     \* os.listdir(models_path): the set of entry names
    sketches,   \* the list of Sketch records
    rows,       \* the rows the external tool printed (lists of fields)
    stdout,     \* result.stdout of the external tool: the text parsed
    hits,       \* the list of MashHit records
    best_hits,  \* the value returned by get_best_hits
    output,     \* the lines printed on standard output by write_hits
    error,      \* the exception that ended the run, if any
    trace       \* the external tools and pipeline steps run so far, in order

vars == <<pc, check, mode, n, models, sketches, rows, stdout, hits,
          best_hits, output, error, trace>>

-----------------------------------------------------------------------------
(* Bounds of the model.                                                    *)

MaxInfoRows == 2
MaxDistRows == 2
MaxHits == 3
MaxN == 2
MaxSketches == 11

-----------------------------------------------------------------------------
(* Characters and Python str primitives.                                   *)

TAB == "\t"
NL == "\n"
SLASH == "/"

\* str.rstrip() with no argument strips these (of the characters modelled)
Whitespace == {" ", TAB, NL}

\* ord() of the characters that occur in the compared strings
ord ==
    [c \in {"-", ".", "/", "0", "1", "2", "3", "4", "5", "6", "7", "8", "9", "e"} |->
        CASE c = "-" -> 45 [] c = "." -> 46 [] c = "/" -> 47
          [] c = "0" -> 48 [] c = "1" -> 49 [] c = "2" -> 50 [] c = "3" -> 51
          [] c = "4" -> 52 [] c = "5" -> 53 [] c = "6" -> 54 [] c = "7" -> 55
          [] c = "8" -> 56 [] c = "9" -> 57 [] c = "e" -> 101]

RECURSIVE rstrip(_)
rstrip(s) ==
    IF s = <<>> THEN <<>>
    ELSE IF s[Len(s)] \in Whitespace THEN rstrip(SubSeq(s, 1, Len(s) - 1))
    ELSE s

RECURSIVE split(_, _)
split(s, sep) ==
    IF \A i \in 1..Len(s) : s[i] # sep THEN <<s>>
    ELSE LET i == CHOOSE j \in 1..Len(s) :
                      s[j] = sep /\ \A k \in 1..(j - 1) : s[k] # sep
         IN  <<SubSeq(s, 1, i - 1)>> \o split(SubSeq(s, i + 1, Len(s)), sep)

RECURSIVE join(_, _)
join(sep, parts) ==
    IF parts = <<>> THEN <<>>
    ELSE IF Len(parts) = 1 THEN parts[1]
    ELSE parts[1] \o <<sep>> \o join(sep, Tail(parts))

\* Python's < on str: lexicographic by code point, a proper prefix is smaller
RECURSIVE str_lt(_, _)
str_lt(a, b) ==
    IF b = <<>> THEN FALSE
    ELSE IF a = <<>> THEN TRUE
    ELSE IF a[1] # b[1] THEN ord[a[1]] < ord[b[1]]
    ELSE str_lt(Tail(a), Tail(b))

-----------------------------------------------------------------------------
(* Records and results.                                                    *)

Sketch(hashes, length, sketch_id, comment) ==
    [hashes |-> hashes, length |-> length, sketch_id |-> sketch_id,
     comment |-> comment]

MashHit(ref_id, query_id, mash_dist, p_value, matching_hashes, total_hashes) ==
    [ref_id |-> ref_id, query_id |-> query_id, mash_dist |-> mash_dist,
     p_value |-> p_value, matching_hashes |-> matching_hashes,
     total_hashes |-> total_hashes]

NoError == [type |-> "none", msg |-> "", ids |-> <<>>]

Raised(type, msg, ids) == [type |-> type, msg |-> msg, ids |-> ids]

Returned(val) == [err |-> NoError, val |-> val]

Failed(e) == [err |-> e, val |-> <<>>]

-----------------------------------------------------------------------------
(* The parsers.                                                            *)

InfoFormatError ==
    Raised("ValueError", "Mash info output not formatted as expected", <<>>)

DistFormatError ==
    Raised("ValueError", "Mash dist output not formatted as expected", <<>>)

parse_mash_info(result) ==
    IF result = <<>> THEN Returned(<<>>)
    ELSE LET lines == Tail(split(rstrip(result), NL))
             f(i) == split(lines[i], TAB)
         IN  IF \E i \in 1..Len(lines) : Len(f(i)) # 4
             THEN Failed(InfoFormatError)
             ELSE Returned([i \in 1..Len(lines) |->
                               Sketch(f(i)[1], f(i)[2], f(i)[3], f(i)[4])])

parse_mash_dist(result) ==
    IF result = <<>> THEN Returned(<<>>)
    ELSE LET lines == split(rstrip(result), NL)
             f(i) == split(lines[i], TAB)
             r(i) == split(f(i)[5], SLASH)
         IN  IF \E i \in 1..Len(lines) : Len(f(i)) # 5 \/ Len(r(i)) # 2
             THEN Failed(DistFormatError)
             ELSE Returned([i \in 1..Len(lines) |->
                               MashHit(f(i)[1], f(i)[2], f(i)[3], f(i)[4],
                                       r(i)[1], r(i)[2])])

-----------------------------------------------------------------------------
(* check_models.                                                           *)

ShowFirst == 10

MissingModelError(ids) ==
    Raised("FileNotFoundError", "no gene model was found", ids)

ListdirError == Raised("OSError", "os.listdir failed", <<>>)

MashInfoExitError ==
    Raised("RuntimeError", "Mash info returned non-zero exit status", <<>>)

MashDistExitError ==
    Raised("RuntimeError", "Mash dist returned non-zero exit status", <<>>)

Min(a, b) == IF a <= b THEN a ELSE b

Max(a, b) == IF a >= b THEN a ELSE b

\* the loop that collects the sketch ids without a model entry
RECURSIVE missing_ids(_, _)
missing_ids(entries, sks) ==
    IF sks = <<>> THEN <<>>
    ELSE (IF sks[1].sketch_id \in entries THEN <<>> ELSE <<sks[1].sketch_id>>)
             \o missing_ids(entries, Tail(sks))

\* variant: the message lists every missing id
shown_ids_all(missing) == missing

\* missing_ids[:10]
shown_ids(missing) == SubSeq(missing, 1, Min(ShowFirst, Len(missing)))

\* the part of check_models after the sketches were obtained
check_missing(entries, sks) ==
    LET missing == missing_ids(entries, sks)
    IN  IF missing # <<>> THEN Failed(MissingModelError(shown_ids(missing)))
        ELSE Returned(<<>>)

run_mash_info(exit_status, text) ==
    IF exit_status # 0 THEN Failed(MashInfoExitError)
    ELSE parse_mash_info(text)

\* listing: the outcome of os.listdir; exit_status, text: of "mash info -t"
check_models(listing, exit_status, text) ==
    IF listing.err # NoError THEN [err |-> listing.err, events |-> <<>>]
    ELSE LET got == run_mash_info(exit_status, text)
         IN  [err |-> IF got.err # NoError THEN got.err
                      ELSE check_missing(listing.val, got.val).err,
              events |-> <<"mash_info">>]

-----------------------------------------------------------------------------
(* run_mash_dist, get_best_hits, write_hits.                               *)

run_mash_dist(exit_status, text) ==
    IF exit_status # 0 THEN Failed(MashDistExitError)
    ELSE parse_mash_dist(text)

\* sorted(hits, key=lambda hit: hit.mash_dist): stable, compares the str keys
RECURSIVE insert_sorted(_, _)
insert_sorted(s, x) ==
    IF s = <<>> THEN <<x>>
    ELSE IF str_lt(x.mash_dist, s[1].mash_dist) THEN <<x>> \o s
    ELSE <<s[1]>> \o insert_sorted(Tail(s), x)

RECURSIVE sorted(_)
sorted(h) ==
    IF h = <<>> THEN <<>>
    ELSE insert_sorted(sorted(SubSeq(h, 1, Len(h) - 1)), h[Len(h)])

\* s[:k] of a Python list
slice_to(s, k) ==
    IF k >= 0 THEN SubSeq(s, 1, Min(k, Len(s)))
    ELSE SubSeq(s, 1, Max(Len(s) + k, 0))

\* the loop of the standard mode: stop at the first hit that differs
RECURSIVE tie_prefix(_, _)
tie_prefix(best, rest) ==
    IF rest = <<>> THEN best
    ELSE IF rest[1].mash_dist # best[Len(best)].mash_dist THEN best
    ELSE tie_prefix(Append(best, rest[1]), Tail(rest))

List(val) == [kind |-> "list", val |-> val]

None == [kind |-> "None", val |-> <<>>]

get_best_hits(h, m, k) ==
    IF h = <<>> THEN List(<<>>)
    ELSE LET sorted_hits == sorted(h)
         IN  IF m = "standard"
             THEN List(tie_prefix(<<sorted_hits[1]>>, Tail(sorted_hits)))
             ELSE IF m = "best_n" THEN List(slice_to(sorted_hits, k))
             ELSE None

Header ==
    join(TAB, <<<<"Hit">>, <<"Mash_distance">>, <<"Matching hashes">>,
                <<"p value">>>>)

hit_line(hit) ==
    join(TAB, <<hit.ref_id, hit.mash_dist,
                join(SLASH, <<hit.matching_hashes, hit.total_hashes>>),
                hit.p_value>>)

\* variant: the fields are not all str, so the join of the first hit row
\* raises after the header was printed
write_hits_join_raises(best) ==
    IF best.val = <<>> THEN [err |-> NoError, lines |-> <<>>]
    ELSE [err |-> Raised("TypeError", "sequence item: expected str", <<>>),
          lines |-> <<Header>>]

\* the lines write_hits prints; "not best_hits" holds of None and of []
write_hits(best) ==
    IF best.val = <<>> THEN [err |-> NoError, lines |-> <<>>]
    ELSE [err |-> NoError,
          lines |-> <<Header>> \o [i \in 1..Len(best.val) |-> hit_line(best.val[i])]]

-----------------------------------------------------------------------------
(* What the external tools can print: rows of tab-separated fields, one    *)
(* line per row, every line ended by a newline.                            *)

Digits == <<"0", "1", "2", "3", "4", "5", "6", "7", "8", "9">>

RefId(i) == <<"r", Digits[i + 1]>>

SketchIds == {<<"a">>, <<"b">>}

Comments == {<<>>, <<"c">>}

DistStrings == {<<"0", ".", "1">>, <<"0", ".", "2", "5">>,
                <<"1", "e", "-", "0", "5">>}

InfoForms == {"ok", "short", "extra_empty", "extra"}

DistForms == {"ok", "short", "extra_empty", "extra", "no_slash", "two_slashes"}

\* a run of an external tool: a non-zero exit status, or 0 and its output
ToolRuns(texts) ==
    {[exit_status |-> 1, stdout |-> <<>>]} \cup
    {[exit_status |-> 0, stdout |-> t] : t \in texts}

Modes == {"standard", "best_n", "fastest"}

InfoHeader == <<<<"#Hashes">>, <<"Length">>, <<"ID">>, <<"Comment">>>>

InfoRow(id, comment, form) ==
    CASE form = "ok" -> <<<<"1">>, <<"2">>, id, comment>>
      [] form = "short" -> <<<<"1">>, <<"2">>, id>>
      [] form = "extra_empty" -> <<<<"1">>, <<"2">>, id, comment, <<>>>>
      [] form = "extra" -> <<<<"1">>, <<"2">>, id, comment, <<"x">>>>

DistRow(i, d, form) ==
    LET head == <<RefId(i), <<"q">>, d, <<"0">>>>
    IN  CASE form = "ok" -> head \o <<<<"1", "/", "2">>>>
          [] form = "short" -> head
          [] form = "extra_empty" -> head \o <<<<"1", "/", "2">>, <<>>>>
          [] form = "extra" -> head \o <<<<"1", "/", "2">>, <<"x">>>>
          [] form = "no_slash" -> head \o <<<<"1", "2">>>>
          [] form = "two_slashes" -> head \o <<<<"1", "/", "2", "/", "3">>>>

InfoRows ==
    {InfoRow(id, c, f) : id \in SketchIds, c \in Comments, f \in InfoForms}

InfoRowLists == UNION {[1..k -> InfoRows] : k \in 0..MaxInfoRows}

DistRowListsOf(k, forms) ==
    {[i \in 1..k |-> DistRow(i, ds[i], fs[i])] :
        ds \in [1..k -> DistStrings], fs \in [1..k -> forms]}

DistRowLists == UNION {DistRowListsOf(k, DistForms) : k \in 0..MaxDistRows}

RECURSIVE Render(_)
Render(lines) ==
    IF lines = <<>> THEN <<>>
    ELSE join(TAB, lines[1]) \o <<NL>> \o Render(Tail(lines))

\* "mash info -t" prints a header line, then one line per sketch
InfoText(rs) == Render(<<InfoHeader>> \o rs)

\* "mash dist" prints one line per hit and no header
DistText(rs) == Render(rs)

MashInfoRuns == ToolRuns({InfoText(rs) : rs \in InfoRowLists})

MashDistRuns == ToolRuns({DistText(rs) : rs \in DistRowLists})

\* os.listdir(models_path) raises, or returns the entry names
Listings ==
    {[err |-> ListdirError, val |-> {}]} \cup
    {[err |-> NoError, val |-> m] : m \in SUBSET SketchIds}

\* the hit lists run_mash_dist can return
HitLists ==
    UNION {{parse_mash_dist(DistText(rs)).val : rs \in DistRowListsOf(k, {"ok"})} :
              k \in 0..MaxHits}

SketchLists ==
    UNION {{[i \in 1..k |-> Sketch(<<"1">>, <<"2">>, ids[i], <<"c">>)] :
               ids \in [1..k -> SketchIds]} : k \in 0..MaxSketches}

Unset == [kind |-> "unset", val |-> <<>>]

-----------------------------------------------------------------------------
(* select_models: the pipeline, one action per step.                       *)

\* variant: the exception of check_models is swallowed
after_check_swallowed(err) == "run_mash_dist"

\* an exception of check_models propagates out of select_models
after_check(err) == IF err = NoError THEN "run_mash_dist" ELSE "failed"

\* variant: a failed distance computation is tried again
after_dist_retry(err) == IF err = NoError THEN "get_best_hits" ELSE "run_mash_dist"

\* an exception of run_mash_dist propagates out of select_models
after_dist(err) == IF err = NoError THEN "get_best_hits" ELSE "failed"

Init ==
    /\ pc = "select_models"
    /\ check \in BOOLEAN
    /\ mode \in Modes
    /\ n \in (-MaxN)..MaxN
    /\ models = {}
    /\ sketches = <<>>
    /\ rows = <<>>
    /\ stdout = <<>>
    /\ hits = <<>>
    /\ best_hits = Unset
    /\ output = <<>>
    /\ error = NoError
    /\ trace = <<>>

CheckModels ==
    /\ pc = "select_models"
    /\ check
    /\ \E listing \in Listings, run \in MashInfoRuns :
          LET r == check_models(listing, run.exit_status, run.stdout)
          IN  /\ error' = r.err
              /\ trace' = trace \o r.events \o
                     <<IF r.err = NoError THEN "check_ok" ELSE "check_failed">>
              /\ pc' = after_check(r.err)
    /\ UNCHANGED <<check, mode, n, models, sketches, rows, stdout, hits,
                   best_hits, output>>

SkipCheck ==
    /\ pc = "select_models"
    /\ ~check
    /\ pc' = "run_mash_dist"
    /\ UNCHANGED <<check, mode, n, models, sketches, rows, stdout, hits,
                   best_hits, output, error, trace>>

RunMashDist ==
    /\ pc = "run_mash_dist"
    /\ \E run \in MashDistRuns :
          LET r == run_mash_dist(run.exit_status, run.stdout)
          IN  /\ hits' = r.val
              /\ error' = r.err
              /\ trace' = trace \o
                     <<"mash_dist",
                       IF r.err = NoError THEN "dist_parsed" ELSE "dist_failed">>
              /\ pc' = after_dist(r.err)
    /\ UNCHANGED <<check, mode, n, models, sketches, rows, stdout, best_hits,
                   output>>

GetBestHits ==
    /\ pc = "get_best_hits"
    /\ best_hits' = get_best_hits(hits, mode, n)
    /\ trace' = Append(trace, "get_best_hits")
    /\ pc' = "write_hits"
    /\ UNCHANGED <<check, mode, n, models, sketches, rows, stdout, hits,
                   output, error>>

WriteHits ==
    /\ pc = "write_hits"
    /\ LET w == write_hits(best_hits)
       IN  /\ output' = w.lines
           /\ error' = w.err
           /\ pc' = IF w.err = NoError THEN "done" ELSE "failed"
    /\ trace' = Append(trace, "write_hits")
    /\ UNCHANGED <<check, mode, n, models, sketches, rows, stdout, hits,
                   best_hits>>

Next == CheckModels \/ SkipCheck \/ RunMashDist \/ GetBestHits \/ WriteHits

Spec == Init /\ [][Next]_vars

-----------------------------------------------------------------------------
(* get_best_hits and write_hits applied to every hit list.                 *)

InitSelect ==
    /\ pc = "get_best_hits"
    /\ check = FALSE
    /\ mode \in Modes
    /\ n \in (-MaxN)..MaxN
    /\ models = {}
    /\ sketches = <<>>
    /\ rows = <<>>
    /\ stdout = <<>>
    /\ hits \in HitLists
    /\ best_hits = Unset
    /\ output = <<>>
    /\ error = NoError
    /\ trace = <<"mash_dist", "dist_parsed">>

NextSelect == GetBestHits \/ WriteHits

SpecSelect == InitSelect /\ [][NextSelect]_vars

-----------------------------------------------------------------------------
(* The two parsers applied to every printed text.                          *)

InitParse ==
    /\ \/ /\ pc = "parse_mash_info"
          /\ rows \in InfoRowLists
          /\ stdout = InfoText(rows)
       \/ /\ pc = "parse_mash_dist"
          /\ rows \in DistRowLists
          /\ stdout = DistText(rows)
    /\ check = FALSE
    /\ mode = "standard"
    /\ n = 1
    /\ models = {}
    /\ sketches = <<>>
    /\ hits = <<>>
    /\ best_hits = Unset
    /\ output = <<>>
    /\ error = NoError
    /\ trace = <<>>

ParseMashInfo ==
    /\ pc = "parse_mash_info"
    /\ LET r == parse_mash_info(stdout)
       IN  /\ sketches' = r.val
           /\ error' = r.err
           /\ pc' = IF r.err = NoError THEN "parse_mash_info_returned"
                    ELSE "parse_mash_info_raised"
    /\ UNCHANGED <<check, mode, n, models, rows, stdout, hits, best_hits,
                   output, trace>>

ParseMashDist ==
    /\ pc = "parse_mash_dist"
    /\ LET r == parse_mash_dist(stdout)
       IN  /\ hits' = r.val
           /\ error' = r.err
           /\ pc' = IF r.err = NoError THEN "parse_mash_dist_returned"
                    ELSE "parse_mash_dist_raised"
    /\ UNCHANGED <<check, mode, n, models, sketches, rows, stdout, best_hits,
                   output, trace>>

NextParse == ParseMashInfo \/ ParseMashDist

SpecParse == InitParse /\ [][NextParse]_vars

-----------------------------------------------------------------------------
(* The missing-model check applied to every directory and sketch list.     *)

InitCheck ==
    /\ pc = "check_models"
    /\ check = TRUE
    /\ mode = "standard"
    /\ n = 1
    /\ models \in SUBSET SketchIds
    /\ sketches \in SketchLists
    /\ rows = <<>>
    /\ stdout = <<>>
    /\ hits = <<>>
    /\ best_hits = Unset
    /\ output = <<>>
    /\ error = NoError
    /\ trace = <<"mash_info">>

CheckMissing ==
    /\ pc = "check_models"
    /\ LET r == check_missing(models, sketches)
       IN  /\ error' = r.err
           /\ pc' = IF r.err = NoError THEN "check_models_returned"
                    ELSE "check_models_raised"
    /\ UNCHANGED <<check, mode, n, models, sketches, rows, stdout, hits,
                   best_hits, output, trace>>

NextCheck == CheckMissing

SpecCheck == InitCheck /\ [][NextCheck]_vars

-----------------------------------------------------------------------------
(* The number a distance string denotes (MashHit.mash_dist: float), as     *)
(* m * 10^e.                                                               *)

digit_val(c) == CHOOSE d \in 0..9 : Digits[d + 1] = c

RECURSIVE digits_val(_)
digits_val(s) ==
    IF s = <<>> THEN 0
    ELSE 10 * digits_val(SubSeq(s, 1, Len(s) - 1)) + digit_val(s[Len(s)])

IndexOf(s, c) ==
    IF \E i \in 1..Len(s) : s[i] = c
    THEN CHOOSE i \in 1..Len(s) : s[i] = c /\ \A k \in 1..(i - 1) : s[k] # c
    ELSE Len(s) + 1

float_value(s) ==
    LET epos == IndexOf(s, "e")
        mant == SubSeq(s, 1, epos - 1)
        expo == SubSeq(s, epos + 1, Len(s))
        dot == IndexOf(mant, ".")
        frac == IF dot > Len(mant) THEN 0 ELSE Len(mant) - dot
        NotDot(c) == c # "."
        ex == IF expo = <<>> THEN 0
              ELSE IF expo[1] = "-" THEN 0 - digits_val(Tail(expo))
              ELSE digits_val(expo)
    IN  [m |-> digits_val(SelectSeq(mant, NotDot)), e |-> ex - frac]

num_le(a, b) ==
    LET x == float_value(a)
        y == float_value(b)
        lo == Min(x.e, y.e)
    IN  x.m * 10 ^ (x.e - lo) <= y.m * 10 ^ (y.e - lo)

num_eq(a, b) == num_le(a, b) /\ num_le(b, a)

num_lt(a, b) == num_le(a, b) /\ ~num_le(b, a)

\* the position in hits of a returned hit (reference ids are distinct)
PosInHits(h) == CHOOSE i \in 1..Len(hits) : hits[i].ref_id = h.ref_id

Selected == "get_best_hits" \in {trace[i] : i \in 1..Len(trace)}

Count(ev) == Cardinality({i \in 1..Len(trace) : trace[i] = ev})

Before(a, b) ==
    \A j \in 1..Len(trace) :
        trace[j] = b => \E i \in 1..(j - 1) : trace[i] = a

-----------------------------------------------------------------------------
(* Claims.                                                                 *)

\* C1: in a run of select_models with check set, once the consistency step
\* has failed (a sketch id without model entry, or the sketch listing call
\* or its parse failing), the distance tool is never invoked afterwards.
C1_NoDistAfterFailedCheck ==
    \A i \in 1..Len(trace) :
        trace[i] = "check_failed" =>
            /\ pc = "failed"
            /\ \A j \in 1..Len(trace) : trace[j] # "mash_dist"

C1_Witness ==
    /\ check
    /\ pc = "failed"
    /\ trace = <<"mash_info", "check_failed">>
    /\ error = MissingModelError(<<<<"a">>, <<"b">>>>)

\* C2: a run of select_models that ends in a failure of any kind (missing
\* model, non-zero exit of either mash call, malformed output in either
\* parser) has printed neither a header nor a hit row, and carries the error.
C2_NoOutputOnFailure ==
    pc = "failed" => output = <<>> /\ error # NoError

C2_Witness ==
    /\ pc = "failed"
    /\ trace = <<"mash_info", "check_ok", "mash_dist", "dist_failed">>
    /\ error = DistFormatError
    /\ output = <<>>

\* C3: for a non-empty hit list and n >= 1, best_n mode returns exactly
\* min(n, len(hits)) hits, the first ones of the hits stably sorted by the
\* number their distance denotes: non-decreasing as numbers, none larger than
\* a hit left out, equal distances in input order.
C3_BestNSortedByNumber ==
    (Selected /\ mode = "best_n" /\ n >= 1 /\ hits # <<>>) =>
        LET b == best_hits.val
            P(j) == PosInHits(b[j])
        IN  /\ best_hits.kind = "list"
            /\ Len(b) = Min(n, Len(hits))
            /\ \A j \in 1..Len(b) : \E i \in 1..Len(hits) : hits[i] = b[j]
            /\ \A j, k \in 1..Len(b) :
                   j < k => \/ num_lt(b[j].mash_dist, b[k].mash_dist)
                            \/ /\ num_eq(b[j].mash_dist, b[k].mash_dist)
                               /\ P(j) < P(k)
            /\ \A i \in 1..Len(hits) :
                   (\A j \in 1..Len(b) : P(j) # i) =>
                       \A j \in 1..Len(b) :
                           \/ num_lt(b[j].mash_dist, hits[i].mash_dist)
                           \/ /\ num_eq(b[j].mash_dist, hits[i].mash_dist)
                              /\ P(j) < i

\* C4: for every hit list and every n <= 0, negative n included, best_n
\* mode returns an empty sequence.
C4_BestNNonPositiveEmpty ==
    (Selected /\ mode = "best_n" /\ n <= 0) => best_hits = List(<<>>)

\* C5: for a non-empty hit list, standard mode returns exactly the hits whose
\* distance equals the lowest distance of the list (equal as values), all of
\* them and no others, in input order, whatever n is.
C5_StandardLowestTies ==
    (Selected /\ mode = "standard" /\ hits # <<>>) =>
        LET Lowest(h) ==
                \A i \in 1..Len(hits) : num_le(h.mash_dist, hits[i].mash_dist)
        IN  /\ best_hits.kind = "list"
            /\ best_hits.val = SelectSeq(hits, Lowest)

\* C6: for a mode other than "standard" and "best_n" and a non-empty hit
\* list, get_best_hits fails with an error, so select_models does not end
\* successfully with nothing printed.
C6_UnknownModeFails ==
    (Selected /\ mode \notin {"standard", "best_n"} /\ hits # <<>>) =>
        /\ pc = "failed"
        /\ error # NoError

\* C7: for a sketch listing of one header line and k >= 0 data lines of
\* exactly 4 tab-separated fields each (the comment may be empty, also on the
\* last line), parse_mash_info returns exactly k records in line order, the
\* i-th carrying the four fields of the i-th data line, and never the header.
C7_InfoParsesEveryWellFormedListing ==
    (/\ pc \in {"parse_mash_info_returned", "parse_mash_info_raised"}
     /\ \A i \in 1..Len(rows) : Len(rows[i]) = 4) =>
        /\ pc = "parse_mash_info_returned"
        /\ error = NoError
        /\ sketches = [i \in 1..Len(rows) |->
                          Sketch(rows[i][1], rows[i][2], rows[i][3], rows[i][4])]

\* C8: both parsers are all-or-nothing: when any data line has the wrong
\* number of tab-separated fields (not 4 for parse_mash_info, not 5 for
\* parse_mash_dist) or, for parse_mash_dist, a hash ratio without exactly one
\* "/", the parse fails with the format error and returns no records.
C8_MalformedLineFailsParse ==
    LET Slashes(s) == Cardinality({i \in 1..Len(s) : s[i] = SLASH})
    IN  /\ (/\ pc \in {"parse_mash_info_returned", "parse_mash_info_raised"}
            /\ \E i \in 1..Len(rows) : Len(rows[i]) # 4) =>
               /\ pc = "parse_mash_info_raised"
               /\ error = InfoFormatError
               /\ sketches = <<>>
        /\ (/\ pc \in {"parse_mash_dist_returned", "parse_mash_dist_raised"}
            /\ \E i \in 1..Len(rows) :
                   Len(rows[i]) # 5 \/ Slashes(rows[i][5]) # 1) =>
               /\ pc = "parse_mash_dist_raised"
               /\ error = DistFormatError
               /\ hits = <<>>

\* C9: check_models raises the missing-model error exactly when some sketch
\* id is not a model directory entry; the ids it names are then the first
\* min(10, m) of the m missing ids in the order of the sketches; with no id
\* missing it returns without error.
C9_MissingModelsReported ==
    pc \in {"check_models_returned", "check_models_raised"} =>
        LET miss == {i \in 1..Len(sketches) : sketches[i].sketch_id \notin models}
            m == Cardinality(miss)
            Nth(j) == CHOOSE i \in miss :
                          Cardinality({q \in miss : q < i}) = j - 1
        IN  /\ (pc = "check_models_raised") <=> (m > 0)
            /\ m = 0 => error = NoError
            /\ m > 0 =>
                  /\ error.type = "FileNotFoundError"
                  /\ error.msg = "no gene model was found"
                  /\ Len(error.ids) = Min(10, m)
                  /\ \A j \in 1..Len(error.ids) :
                         error.ids[j] = sketches[Nth(j)].sketch_id

C9_Witness ==
    /\ pc = "check_models_raised"
    /\ models = {<<"a">>}
    /\ Len(sketches) = 11
    /\ \A i \in 1..Len(sketches) : sketches[i].sketch_id = <<"b">>
    /\ Len(error.ids) = 10

\* C10: a run of select_models is a linear sequence without retries: the
\* sketch-listing tool runs at most once and only with check set, the
\* distance tool at most once and only after a successful check step (if
\* any), selection only after the distance output was parsed, emission only
\* after selection; the run always proceeds until it is in one terminal
\* state, success or failure, and stays there.
C10_LinearPipeline ==
    /\ Count("mash_info") <= 1
    /\ Count("mash_info") = 1 => check
    /\ Count("mash_dist") <= 1
    /\ check => Before("check_ok", "mash_dist")
    /\ Count("get_best_hits") <= 1
    /\ Before("dist_parsed", "get_best_hits")
    /\ Before("mash_dist", "dist_parsed")
    /\ Count("write_hits") <= 1
    /\ Before("get_best_hits", "write_hits")
    /\ pc \in {"done", "failed"} <=> ~ENABLED Next
    /\ pc = "done" <=> (Count("write_hits") = 1 /\ error = NoError)
    /\ pc = "failed" <=> error # NoError

C10_Witness ==
    /\ pc = "done"
    /\ check
    /\ trace = <<"mash_info", "check_ok", "mash_dist", "dist_parsed",
                 "get_best_hits", "write_hits">>
    /\ Len(output) = 3

====
